---- MODULE Spec2Model ----
(***************************************************************************)
(* HarperFast/grafana-datasource, backend plugin (pkg/plugin/datasource.go) *)
(*                                                                         *)
(* Datasource.query turns the records returned by Harper (each a           *)
(* map[string]any decoded from JSON) into one Grafana data frame.  Every   *)
(* record is passed to flattenMap together with the same map of fields     *)
(* (mappedFields); appendVal creates a field the first time a scalar is    *)
(* seen for a name and appends to it afterwards.  The fields are then put  *)
(* into the frame, sorted by name for get_analytics and in map iteration   *)
(* order for search_by_conditions.                                         *)
(*                                                                         *)
(* Names are Go strings, modelled as sequences of bytes, so that           *)
(* concatenation (namePrefix + k), strconv.Itoa and sort.Strings are what  *)
(* they are in the code.  A Go map is a function on a finite set of names; *)
(* "for k, v := range m" visits the keys in an order the language leaves   *)
(* open, so every order is a possible behaviour.                           *)
(***************************************************************************)
EXTENDS Integers, Sequences, FiniteSets, TLC

VARIABLES
    pc,            \* where Datasource.query stands
    operation,     \* qo.Operation of the query being served
    results,       \* the records the Harper client returned
    idx,           \* 1-based index of the next record of the range loop
    mappedFields,  \* map[string]*data.Field, as name -> [kind, vals]
    warnings,      \* number of log.DefaultLogger.Warn lines written
    frame,         \* frame.Fields, as the sequence of field names
    response,      \* what query returns: "none" yet, "frame" or "error"
    frames,        \* response.Frames of query, each [RefID, Fields]
    err,           \* the error query returns: its text, "nil" for none
    clientCalls,   \* number of calls query made to the Harper client
    goroutines,    \* concurrent calls of query: id -> [pc, results, idx, fields]
    fieldMaps,     \* the field maps those calls work on: map id -> fields
    instance,      \* what NewDatasource returned: [settings, password, err]
    health,        \* what CheckHealth returned: [status, message, err]
    queryData,     \* a call of QueryData: [pc, queries, i, responses, err]
    mh,            \* the metricsHandler: [builtinMetricsCache, logger]
    heap,          \* the backing arrays of the slices ListMetrics returned
    requests,      \* the GET /metrics requests being served, by id
    upstream,      \* the ListMetrics calls made: [builtinCalls, customCalls, fetched]
    coerced,       \* a call of coerceValue: [fieldVal, toType, result, again]
    form,          \* the condition form of the query editor: [condition, typed]
    templ          \* a query template: [query, applied, filtered]

queryVars == <<pc, operation, results, idx, mappedFields, warnings, frame, response, frames,
              err, clientCalls>>

concVars == <<goroutines, fieldMaps>>

pluginVars == <<instance, health, queryData>>

handlerVars == <<mh, heap, requests, upstream>>

editorVars == <<coerced, form, templ>>

backendVars == <<queryVars, concVars, pluginVars, handlerVars>>

vars == <<backendVars, editorVars>>

----------------------------------------------------------------------------
(* Bounds of the model *)

MaxRecords == 2

----------------------------------------------------------------------------
(* Go strings as byte sequences *)

Dot == <<46>>
KeyA == <<97>>
KeyB == <<98>>

RECURSIVE Itoa(_)
Itoa(i) == IF i < 10 THEN <<48 + i>> ELSE Itoa(i \div 10) \o <<48 + (i % 10)>>

\* s < t in Go: byte-wise lexicographic comparison
RECURSIVE StrLess(_, _)
StrLess(s, t) ==
    IF t = <<>> THEN FALSE
    ELSE IF s = <<>> THEN TRUE
    ELSE IF Head(s) # Head(t) THEN Head(s) < Head(t)
    ELSE StrLess(Tail(s), Tail(t))

\* all orders in which the elements of a finite set can be visited
Orders(S) ==
    {o \in [1..Cardinality(S) -> S] : \A i, j \in 1..Cardinality(S) : i # j => o[i] # o[j]}

IsSorted(names) ==
    \A i, j \in 1..Len(names) : i < j => StrLess(names[i], names[j])

SortStrings(S) == CHOOSE o \in Orders(S) : IsSorted(o)

----------------------------------------------------------------------------
(* Values of type any found in a record *)

ScalarKinds == {"string", "bool", "float64", "int64", "time.Time"}

Scalar(k, n) == [kind |-> k, n |-> n]
NilValue == [kind |-> "nil", n |-> 0]
MapValue(m) == [kind |-> "map", m |-> m]
SliceValue(e) == [kind |-> "slice", elems |-> e]
OtherValue == [kind |-> "other", n |-> 0]

IsScalar(v) == v.kind \in ScalarKinds

\* data.Field: a typed vector of nullable cells
NewField(k, cells) == [kind |-> k, vals |-> cells]

EmptyMap == [n \in {} |-> 0]

Get(m, name) == IF name \in DOMAIN m THEN m[name] ELSE 0

Put(m, name, x) == [n \in DOMAIN m \cup {name} |-> IF n = name THEN x ELSE m[n]]

Nils(count) == [i \in 1..count |-> NilValue]

----------------------------------------------------------------------------
(* The inputs: what the Harper client can hand to query *)

InputScalars == {Scalar("float64", 1), Scalar("float64", 2), Scalar("string", 1)}

InnerRecord == [k \in {KeyB} |-> Scalar("float64", 1)]

NestedValues ==
    { MapValue(InnerRecord),
      SliceValue(<<Scalar("float64", 1)>>),
      SliceValue(<<MapValue(InnerRecord)>>),
      OtherValue }

ValuesA == InputScalars \cup {NilValue} \cup NestedValues
ValuesB == InputScalars \cup {NilValue}

Records ==
    { r \in UNION {[D -> ValuesA \cup ValuesB] : D \in SUBSET {KeyA, KeyB}} :
        /\ KeyA \in DOMAIN r => r[KeyA] \in ValuesA
        /\ KeyB \in DOMAIN r => r[KeyB] \in ValuesB }

ResultLists == UNION {[1..n -> Records] : n \in 0..MaxRecords}

Operations == {"get_analytics", "search_by_conditions", "sys_info"}

----------------------------------------------------------------------------
(* flattenMap and appendVal.  The state threaded through one call is       *)
(* st = [fields, warns, panicked]: the shared map of fields, the Warn      *)
(* lines written, and whether the goroutine has panicked.                  *)

FlattenState(fields, warns) == [fields |-> fields, warns |-> warns, panicked |-> FALSE]

Panic(st) == [st EXCEPT !.panicked = TRUE]

Warn(st) == [st EXCEPT !.warns = @ + 1]

\* data.Field.Append(e): a nil is appended as a null cell; a pointer whose
\* type is not the element type of the field fails the type assertion in the
\* vector and panics.
FieldAppend(st, fieldName, e) ==
    IF e.kind = "nil" \/ e.kind = st.fields[fieldName].kind
    THEN [st EXCEPT !.fields[fieldName].vals = Append(@, e)]
    ELSE Panic(st)

\* appendVal with last-typed-wins: a value of another kind retypes the field
AppendValRetypes(st, fieldName, val, fieldNils) ==
    IF fieldName \notin DOMAIN st.fields \/ st.fields[fieldName].kind # val.kind
    THEN [st EXCEPT !.fields =
            Put(@, fieldName, NewField(val.kind, Nils(Get(fieldNils, fieldName)) \o <<val>>))]
    ELSE FieldAppend(st, fieldName, val)

AppendVal(st, fieldName, val, fieldNils) ==
    IF fieldName \notin DOMAIN st.fields
    THEN [st EXCEPT !.fields =
            Put(@, fieldName, NewField(val.kind, Nils(Get(fieldNils, fieldName)) \o <<val>>))]
    ELSE FieldAppend(st, fieldName, val)

\* case nil, creating an untyped column for a name seen only with null
FlattenNilCreatesField(st, fieldNils, fieldName) ==
    IF fieldName \notin DOMAIN st.fields
    THEN [st |-> [st EXCEPT !.fields = Put(@, fieldName, NewField("nil", <<NilValue>>))],
          nils |-> fieldNils]
    ELSE [st |-> FieldAppend(st, fieldName, NilValue), nils |-> fieldNils]

\* case nil: count the nil while the field does not exist, else append null
FlattenNil(st, fieldNils, fieldName) ==
    IF fieldName \notin DOMAIN st.fields
    THEN [st |-> st, nils |-> Put(fieldNils, fieldName, Get(fieldNils, fieldName) + 1)]
    ELSE [st |-> FieldAppend(st, fieldName, NilValue), nils |-> fieldNils]

\* a slice element that is not a map: data.NewField(fieldName, nil, v) with
\* v a []interface{} is an unsupported field type, and NewField panics
FlattenSliceScalar(st, fieldName) ==
    IF fieldName \notin DOMAIN st.fields THEN Panic(st) ELSE Warn(st)

RECURSIVE FlattenMap(_, _, _)
RECURSIVE FlattenRange(_, _, _, _, _)
RECURSIVE FlattenValue(_, _, _, _)
RECURSIVE FlattenSlice(_, _, _, _)

\* case map[string]any with the recursion of line 182 in place
FlattenMapCaseRecurses(v, st, fieldNils, fieldName) ==
    {[st |-> s, nils |-> fieldNils] : s \in FlattenMap(v.m, st, fieldName \o Dot)}

\* case map[string]any: a Debug line, the value is skipped
FlattenMapCase(v, st, fieldNils, fieldName) ==
    {[st |-> st, nils |-> fieldNils]}

\* default / reflect.Slice: the elements in index order
FlattenSlice(elems, i, st, fieldName) ==
    IF st.panicked \/ i > Len(elems) THEN {st}
    ELSE IF elems[i].kind = "map"
    THEN UNION { FlattenSlice(elems, i + 1, s, fieldName) :
                   s \in FlattenMap(elems[i].m, st, fieldName \o Dot \o Itoa(i - 1) \o Dot) }
    ELSE FlattenSlice(elems, i + 1, FlattenSliceScalar(st, fieldName), fieldName)

\* the type switch on one value; the set of [st, nils] it can leave
FlattenValue(value, st, fieldNils, fieldName) ==
    CASE IsScalar(value) ->
            {[st |-> AppendVal(st, fieldName, value, fieldNils), nils |-> fieldNils]}
      [] value.kind = "map" -> FlattenMapCase(value, st, fieldNils, fieldName)
      [] value.kind = "nil" -> {FlattenNil(st, fieldNils, fieldName)}
      [] value.kind = "slice" ->
            {[st |-> s, nils |-> fieldNils] : s \in FlattenSlice(value.elems, 1, st, fieldName)}
      [] OTHER -> {[st |-> Warn(st), nils |-> fieldNils]}

\* "for k, value := range source" over the keys not yet visited, in any order
FlattenRange(source, keys, st, fieldNils, namePrefix) ==
    IF st.panicked \/ keys = {} THEN {st}
    ELSE UNION { UNION { FlattenRange(source, keys \ {k}, o.st, o.nils, namePrefix) :
                           o \in FlattenValue(source[k], st, fieldNils, namePrefix \o k) } :
                 k \in keys }

\* flattenMap(source, dest, namePrefix): fieldNils starts empty in every call
FlattenMap(source, st, namePrefix) ==
    FlattenRange(source, DOMAIN source, st, EmptyMap, namePrefix)

----------------------------------------------------------------------------
(* Datasource.query *)

\* the variables of the other specifications, at rest
ConcIdle == goroutines = <<>> /\ fieldMaps = <<>>

\* no instance created, no health check made, no QueryData call made
NoInstance == [ds |-> "none"]

NoHealth == [status |-> "none"]

NoQueryData == [pc |-> "idle"]

PluginIdle == instance = NoInstance /\ health = NoHealth /\ queryData = NoQueryData

\* no metricsHandler made
HandlerIdle ==
    /\ mh = [logger |-> 0] /\ heap = <<>> /\ requests = <<>>
    /\ upstream = [builtinCalls |-> 0]

\* the query editor not opened
EditorIdle ==
    /\ coerced = [toType |-> "none"] /\ form = [typed |-> <<>>]
    /\ templ = [filtered |-> "none"]

\* query.RefID of the query being served
QueryRefID == "A"

\* data.NewFrame("response") with frame.RefID and frame.Fields set
NewFrame(refID, fields) == [Name |-> "response", RefID |-> refID, Fields |-> fields]

\* a frame is appended only when it has fields
AppendFrameIfFields(fs, refID, fields) ==
    IF fields = <<>> THEN fs ELSE Append(fs, NewFrame(refID, fields))

\* response.Frames = append(response.Frames, frame)
AppendFrame(fs, refID, fields) == Append(fs, NewFrame(refID, fields))

\* a table without rows is answered with an error
ResponseFailsWithoutRows(fields) == IF fields = <<>> THEN "error" ELSE "frame"

\* return response, nil
ResponseFor(fields) == "frame"

\* the default case answering without naming the operation
UnsupportedErrorUnnamed(op) == "unsupported Harper operation"

\* errors.New("unsupported Harper operation: " + qo.Operation)
UnsupportedError(op) == "unsupported Harper operation: " \o op

\* the error query wraps around an error of the Harper client
ClientErrorText(op) ==
    IF op = "get_analytics" THEN "could not query Harper analytics" ELSE "error querying Harper"

Init ==
    /\ pc = "start"
    /\ operation \in Operations
    /\ results = <<>>
    /\ idx = 1
    /\ mappedFields = EmptyMap
    /\ warnings = 0
    /\ frame = <<>>
    /\ response = "none"
    /\ frames = <<>>
    /\ err = "nil"
    /\ clientCalls = 0
    /\ ConcIdle
    /\ PluginIdle
    /\ HandlerIdle
    /\ EditorIdle

\* d.harperClient.GetAnalytics returns the records
GetAnalytics ==
    /\ pc = "start" /\ operation = "get_analytics"
    /\ \E rs \in ResultLists : results' = rs
    /\ pc' = "flatten"
    /\ UNCHANGED <<operation, idx, mappedFields, warnings, frame, response, frames>>
    /\ clientCalls' = clientCalls + 1 /\ UNCHANGED err
    /\ UNCHANGED <<concVars, pluginVars, handlerVars, editorVars>>

\* d.harperClient.SearchByConditions fills results
SearchByConditions ==
    /\ pc = "start" /\ operation = "search_by_conditions"
    /\ \E rs \in ResultLists : results' = rs
    /\ pc' = "flatten"
    /\ UNCHANGED <<operation, idx, mappedFields, warnings, frame, response, frames>>
    /\ clientCalls' = clientCalls + 1 /\ UNCHANGED err
    /\ UNCHANGED <<concVars, pluginVars, handlerVars, editorVars>>

\* the Harper client returns an error: query returns it
ClientError ==
    /\ pc = "start" /\ operation \in {"get_analytics", "search_by_conditions"}
    /\ pc' = "done" /\ response' = "error"
    /\ UNCHANGED <<operation, results, idx, mappedFields, warnings, frame, frames>>
    /\ clientCalls' = clientCalls + 1 /\ err' = ClientErrorText(operation)
    /\ UNCHANGED <<concVars, pluginVars, handlerVars, editorVars>>

\* default: unsupported Harper operation
UnsupportedOperation ==
    /\ pc = "start" /\ operation \notin {"get_analytics", "search_by_conditions"}
    /\ pc' = "done" /\ response' = "error"
    /\ UNCHANGED <<operation, results, idx, mappedFields, warnings, frame, frames>>
    /\ err' = UnsupportedError(operation) /\ UNCHANGED clientCalls
    /\ UNCHANGED <<concVars, pluginVars, handlerVars, editorVars>>

\* one iteration of "for _, result := range results": flattenMap(result, mappedFields, "")
FlattenResult ==
    /\ pc = "flatten" /\ idx <= Len(results)
    /\ \E out \in FlattenMap(results[idx], FlattenState(mappedFields, warnings), <<>>) :
          IF out.panicked
          THEN /\ pc' = "panic"
               /\ UNCHANGED <<idx, mappedFields, warnings>>
          ELSE /\ pc' = "flatten"
               /\ idx' = idx + 1
               /\ mappedFields' = out.fields
               /\ warnings' = out.warns
    /\ UNCHANGED <<operation, results, frame, response, frames>>
    /\ UNCHANGED <<err, clientCalls>>
    /\ UNCHANGED <<concVars, pluginVars, handlerVars, editorVars>>

\* get_analytics: the keys are sorted, the fields appended in that order
SortedFields ==
    /\ pc = "flatten" /\ idx > Len(results) /\ operation = "get_analytics"
    /\ frame' = SortStrings(DOMAIN mappedFields)
    /\ frames' = AppendFrame(frames, QueryRefID, frame')
    /\ pc' = "done" /\ response' = ResponseFor(frame')
    /\ UNCHANGED <<operation, results, idx, mappedFields, warnings>>
    /\ UNCHANGED <<err, clientCalls>>
    /\ UNCHANGED <<concVars, pluginVars, handlerVars, editorVars>>

\* search_by_conditions: "for _, field := range mappedFields", any order
RangedFields ==
    /\ pc = "flatten" /\ idx > Len(results) /\ operation = "search_by_conditions"
    /\ \E o \in Orders(DOMAIN mappedFields) : frame' = o
    /\ frames' = AppendFrame(frames, QueryRefID, frame')
    /\ pc' = "done" /\ response' = ResponseFor(frame')
    /\ UNCHANGED <<operation, results, idx, mappedFields, warnings>>
    /\ UNCHANGED <<err, clientCalls>>
    /\ UNCHANGED <<concVars, pluginVars, handlerVars, editorVars>>

Next ==
    \/ GetAnalytics
    \/ SearchByConditions
    \/ ClientError
    \/ UnsupportedOperation
    \/ FlattenResult
    \/ SortedFields
    \/ RangedFields

Spec == Init /\ [][Next]_vars

----------------------------------------------------------------------------
(* What the records carry, read off the records alone *)

Range(f) == {f[i] : i \in DOMAIN f}

Processed == 1..(idx - 1)

Returned == pc = "done" /\ response = "frame"

\* the <<name, value>> pairs of the scalar and null leaves of a record, a
\* sequence of records contributing its elements' leaves under
\* parent.index.child
RECURSIVE Carried(_, _)
Carried(source, prefix) ==
    UNION { LET v == source[k]
                name == prefix \o k
            IN  IF IsScalar(v) \/ v.kind = "nil" THEN {<<name, v>>}
                ELSE IF v.kind = "slice"
                THEN UNION { IF v.elems[i].kind = "map"
                             THEN Carried(v.elems[i].m, name \o Dot \o Itoa(i - 1) \o Dot)
                             ELSE {} : i \in DOMAIN v.elems }
                ELSE {} : k \in DOMAIN source }

\* the non-null scalars record rec carries for column c
ScalarsFor(rec, c) == {p[2] : p \in {q \in Carried(rec, <<>>) : q[1] = c /\ IsScalar(q[2])}}

\* the names for which some record of the set carries a non-null scalar
ValuedNames(recs) == {p[1] : p \in {q \in UNION {Carried(results[i], <<>>) : i \in recs} : IsScalar(q[2])}}

MissingCell == [kind |-> "missing", n |-> 0]

Cell(fields, c, i) ==
    IF c \in DOMAIN fields /\ i <= Len(fields[c].vals) THEN fields[c].vals[i] ELSE MissingCell

Row(fields, i) == [c \in DOMAIN fields |-> Cell(fields, c, i)]

\* a scalar of the record meets a field of another kind
HasTypeConflict(rec, fields) ==
    \E k \in DOMAIN rec :
        IsScalar(rec[k]) /\ k \in DOMAIN fields /\ fields[k].kind # rec[k].kind

OnlyScalars(rec) == \A k \in DOMAIN rec : IsScalar(rec[k]) \/ rec[k].kind = "nil"

\* every possible outcome of flattening recs[i..] into st, record by record
RECURSIVE Project(_, _, _)
Project(recs, i, st) ==
    IF st.panicked \/ i > Len(recs) THEN {st}
    ELSE UNION {Project(recs, i + 1, s) : s \in FlattenMap(recs[i], st, <<>>)}

ProjectAll(recs) == Project(recs, 1, FlattenState(EmptyMap, 0))

Without(recs, j) == [i \in 1..(Len(recs) - 1) |-> IF i < j THEN recs[i] ELSE recs[i + 1]]

----------------------------------------------------------------------------
(* C1  Rectangularity: after N records have been flattened into the field  *)
(* map, every column holds exactly N cells.                                *)
Rectangularity ==
    pc \in {"flatten", "done"} =>
        \A c \in DOMAIN mappedFields : Len(mappedFields[c].vals) = idx - 1

(* C2  Null-for-absence: if record i carries a value for attribute a and   *)
(* record j lacks a, the cell at (row j, column a) is null, and the kind   *)
(* of column a is what it is without record j.                             *)
NullForAbsence ==
    Returned =>
        \A i, j \in 1..Len(results) : \A a \in DOMAIN results[i] :
            (IsScalar(results[i][a]) /\ a \notin DOMAIN results[j]) =>
                /\ a \in DOMAIN mappedFields
                /\ Cell(mappedFields, a, j) = NilValue
                /\ \A out \in ProjectAll(Without(results, j)) :
                       /\ ~out.panicked
                       /\ a \in DOMAIN out.fields
                       /\ out.fields[a].kind = mappedFields[a].kind

(* C3  Type lock: at every point of the loop over the records, the kind of *)
(* each column is the kind of the first non-null scalar carried for it, in *)
(* record order (so no later record changes it).                           *)
TypeLock ==
    \A c \in DOMAIN mappedFields :
        \E i \in Processed :
            /\ \A j \in 1..(i - 1) : ScalarsFor(results[j], c) = {}
            /\ \E v \in ScalarsFor(results[i], c) : mappedFields[c].kind = v.kind

\* two records carried different scalars for column a, the second after the lock
TypeLockWitness ==
    /\ pc = "flatten" /\ idx = 3
    /\ KeyA \in DOMAIN mappedFields
    /\ ScalarsFor(results[1], KeyA) # {}
    /\ ScalarsFor(results[2], KeyA) # {}
    /\ ScalarsFor(results[1], KeyA) # ScalarsFor(results[2], KeyA)
    /\ Len(mappedFields[KeyA].vals) = 2

(* C4  Type conflict is non-fatal: a record of scalars one of which has    *)
(* another kind than its locked column does not abort the query; its cell  *)
(* is null and a warning is recorded.                                      *)
TypeConflictNonFatal ==
    /\ ~( /\ pc = "panic"
          /\ OnlyScalars(results[idx])
          /\ HasTypeConflict(results[idx], mappedFields) )
    /\ \A i \in Processed : \A k \in DOMAIN results[i] :
          ( /\ IsScalar(results[i][k])
            /\ k \in DOMAIN mappedFields
            /\ mappedFields[k].kind # results[i][k].kind )
          => Cell(mappedFields, k, i) = NilValue /\ warnings > 0

(* C5  Column order is lexicographic for every supported operation: the    *)
(* field names of a returned frame ascend byte-wise.                       *)
ColumnOrderLexicographic ==
    Returned => IsSorted(frame)

(* C6  Determinism under permutation: projecting any permutation of the    *)
(* records gives the same columns in the same order and the same rows,     *)
(* reordered as the permutation reorders the records.                      *)
PermutationDeterminism ==
    (Returned /\ operation = "get_analytics") =>
        \A p \in Orders(1..Len(results)) :
            \A out \in ProjectAll([j \in 1..Len(results) |-> results[p[j]]]) :
                /\ ~out.panicked
                /\ SortStrings(DOMAIN out.fields) = frame
                /\ \A j \in 1..Len(results) :
                       Row(out.fields, j) = Row(mappedFields, p[j])

(* C7  Explicit nulls are kept: when the records before record i carry     *)
(* attribute a as null and record i carries its first non-null value, the  *)
(* column has null cells in the earlier rows and the value in row i.       *)
LeadingNullsKept ==
    Returned =>
        \A a \in DOMAIN mappedFields : \A i \in 1..Len(results) :
            ( /\ a \in DOMAIN results[i] /\ IsScalar(results[i][a])
              /\ \A j \in 1..(i - 1) : a \in DOMAIN results[j] /\ results[j][a] = NilValue )
            => /\ Cell(mappedFields, a, i) = results[i][a]
               /\ \A j \in 1..(i - 1) : Cell(mappedFields, a, j) = NilValue

BadInputNeverAborts ==
    ~( /\ pc = "panic"
       /\ ~OnlyScalars(results[idx])
       /\ ~HasTypeConflict(results[idx], mappedFields) )

(* C11  Empty result set is not an error: once the backend has returned   *)
(* zero records for a supported operation, query ends with no error and    *)
(* with exactly one frame, of the query's RefID, that has zero columns.    *)
EmptyResultIsNoError ==
    [][ (pc = "flatten" /\ results = <<>>) =>
            /\ pc' = "done" /\ response' = "frame"
            /\ Len(frames') = 1
            /\ frames'[1].RefID = QueryRefID
            /\ frames'[1].Fields = <<>> ]_vars

\* query has returned for a backend answer of zero records
EmptyResultWitness ==
    Returned /\ results = <<>> /\ idx = 1 /\ Len(frames) = 1

(* C16  Pivot of an empty table is safe: when the records have all been    *)
(* flattened and the table has no row (no column holds a cell), the query  *)
(* ends with a valid empty result, a frame without fields, and never with  *)
(* an error.                                                               *)
EmptyTableIsSafe ==
    [][ (/\ pc = "flatten" /\ idx > Len(results)
         /\ \A c \in DOMAIN mappedFields : mappedFields[c].vals = <<>>) =>
            /\ pc' = "done" /\ response' = "frame"
            /\ frame' = <<>>
            /\ Len(frames') = 1 /\ frames'[1].Fields = <<>> ]_vars

\* records were returned, none of them gave the table a row
EmptyTableWitness ==
    /\ Returned /\ results # <<>> /\ idx = Len(results) + 1
    /\ DOMAIN mappedFields = {} /\ frame = <<>>

----------------------------------------------------------------------------
(* get_analytics over time-series records.  Every record carries a time    *)
(* key "ts", a series identifier "series" and a value "val"; query treats  *)
(* the three attributes alike: flattenMap, then the fields sorted by name. *)

MaxSeriesRecords == 3

KeyTs == <<116, 115>>
KeySeries == <<115, 101, 114, 105, 101, 115>>
KeyVal == <<118, 97, 108>>

SeriesRecord(ts, series, val) ==
    [k \in {KeyTs, KeySeries, KeyVal} |->
        IF k = KeyTs THEN Scalar("float64", ts)
        ELSE IF k = KeySeries THEN Scalar("string", series)
        ELSE Scalar("float64", val)]

SeriesRecords == {SeriesRecord(ts, series, val) : ts \in {1, 2}, series \in {1, 2}, val \in {5, 7, 9}}

SeriesResultLists == UNION {[1..n -> SeriesRecords] : n \in 0..MaxSeriesRecords}

InitSeries ==
    /\ pc = "start"
    /\ operation = "get_analytics"
    /\ results = <<>>
    /\ idx = 1
    /\ mappedFields = EmptyMap
    /\ warnings = 0
    /\ frame = <<>>
    /\ response = "none"
    /\ frames = <<>>
    /\ err = "nil"
    /\ clientCalls = 0
    /\ ConcIdle
    /\ PluginIdle
    /\ HandlerIdle
    /\ EditorIdle

\* d.harperClient.GetAnalytics returns time-series records
GetAnalyticsSeries ==
    /\ pc = "start" /\ operation = "get_analytics"
    /\ \E rs \in SeriesResultLists : results' = rs
    /\ pc' = "flatten"
    /\ UNCHANGED <<operation, idx, mappedFields, warnings, frame, response, frames>>
    /\ clientCalls' = clientCalls + 1 /\ UNCHANGED err
    /\ UNCHANGED <<concVars, pluginVars, handlerVars, editorVars>>

NextSeries ==
    \/ GetAnalyticsSeries
    \/ ClientError
    \/ FlattenResult
    \/ SortedFields

SpecSeries == InitSeries /\ [][NextSeries]_vars

----------------------------------------------------------------------------
(* The table query returns, read as the table of the time series *)

\* the string a series identifier stands for: 1 is "a", 2 is "b"
SeriesString(v) == <<96 + v.n>>

\* the number of rows of the returned table
TableRows == IF frame = <<>> THEN 0 ELSE Len(mappedFields[frame[1]].vals)

KeyValues(recs) == {recs[i][KeyTs] : i \in DOMAIN recs}

SeriesValues(recs) == {recs[i][KeySeries] : i \in DOMAIN recs}

\* the name of the wide column of a series: discriminator value "." column
WideColumn(s) == SeriesString(s) \o Dot \o KeyVal

\* the values the records carry for key k in series s
ValuesAt(recs, k, s) ==
    {recs[i][KeyVal] : i \in {j \in DOMAIN recs : recs[j][KeyTs] = k /\ recs[j][KeySeries] = s}}

(* C12  The discriminator (series identifier) attribute of the records is  *)
(* never a column of the table the query returns.                          *)
DiscriminatorIsNoColumn ==
    Returned => KeySeries \notin Range(frame)

(* C13  No row loss in pivot: for non-empty records, the returned table    *)
(* has exactly one row per distinct key value of the records.              *)
OneRowPerKey ==
    (Returned /\ results # <<>>) =>
        /\ TableRows = Cardinality(KeyValues(results))
        /\ \A c \in Range(frame) : Len(mappedFields[c].vals) = TableRows

(* C14  Pivot fills gaps with null: the returned table has, besides the    *)
(* key, one column per (series, non-key attribute) pair, and the cell of a *)
(* row and a series column is the value of the record of that key and      *)
(* series when there is one, and null otherwise.                           *)
PivotFillsGapsWithNull ==
    (Returned /\ results # <<>>) =>
        /\ Range(frame) \ {KeyTs} = {WideColumn(s) : s \in SeriesValues(results)}
        /\ \A r \in 1..TableRows : \A s \in SeriesValues(results) :
              LET have == ValuesAt(results, Cell(mappedFields, KeyTs, r), s)
                  cell == Cell(mappedFields, WideColumn(s), r)
              IN  IF have = {} THEN cell = NilValue ELSE cell \in have

(* C15  Rows in ascending key order: whatever the order in which the       *)
(* records arrive, the rows of the returned table ascend by the key.       *)
RowsAscendByKey ==
    Returned =>
        \A r1, r2 \in 1..TableRows :
            r1 < r2 => Cell(mappedFields, KeyTs, r1).n <= Cell(mappedFields, KeyTs, r2).n

----------------------------------------------------------------------------
(* Concurrent calls of Datasource.query on one Datasource instance.  A     *)
(* call keeps results, mappedFields and frame in locals; the instance      *)
(* holds only settings and the Harper client, which query does not write.  *)
(* The calls interleave record by record.  A call that panics stops;       *)
(* whether the others go on is left open (they may take no further step).  *)

MaxConcRecords == 2

\* the calls in flight
Queries == {1, 2}

ConcRecords ==
    { [k \in {KeyA} |-> Scalar("float64", 1)],
      [k \in {KeyA} |-> Scalar("string", 1)],
      [k \in {KeyB} |-> Scalar("float64", 2)] }

ConcResultLists == UNION {[1..n -> ConcRecords] : n \in 0..MaxConcRecords}

\* the variables of Datasource.query's own specification, at rest
QueryIdle ==
    /\ pc = "idle" /\ operation = "none" /\ results = <<>> /\ idx = 1
    /\ mappedFields = EmptyMap /\ warnings = 0 /\ frame = <<>>
    /\ response = "none" /\ frames = <<>>
    /\ err = "nil" /\ clientCalls = 0

\* one field map on the instance, used by every call
FieldMapShared(q) == 1

\* mappedFields := make(map[string]*data.Field): a map of the call's own
FieldMapOf(q) == q

InitConc ==
    /\ goroutines = [q \in Queries |->
          [pc |-> "start", results |-> <<>>, idx |-> 1, fields |-> EmptyMap, frame |-> <<>>]]
    /\ fieldMaps = EmptyMap
    /\ QueryIdle
    /\ PluginIdle
    /\ HandlerIdle
    /\ EditorIdle

\* the client returns the records of call q; the call makes its field map
ConcGetAnalytics(q) ==
    /\ goroutines[q].pc = "start"
    /\ \E rs \in ConcResultLists :
          goroutines' = [goroutines EXCEPT ![q].results = rs, ![q].pc = "flatten"]
    /\ fieldMaps' = Put(fieldMaps, FieldMapOf(q), EmptyMap)
    /\ UNCHANGED <<queryVars, pluginVars, handlerVars, editorVars>>

\* one iteration of the range loop of call q
ConcFlattenResult(q) ==
    LET g == goroutines[q] IN
    /\ g.pc = "flatten" /\ g.idx <= Len(g.results)
    /\ \E out \in FlattenMap(g.results[g.idx], FlattenState(fieldMaps[FieldMapOf(q)], 0), <<>>) :
          IF out.panicked
          THEN /\ goroutines' = [goroutines EXCEPT ![q].pc = "panic"]
               /\ UNCHANGED fieldMaps
          ELSE /\ goroutines' = [goroutines EXCEPT ![q].idx = @ + 1]
               /\ fieldMaps' = [fieldMaps EXCEPT ![FieldMapOf(q)] = out.fields]
    /\ UNCHANGED <<queryVars, pluginVars, handlerVars, editorVars>>

\* call q sorts the names, fills the frame and returns
ConcSortedFields(q) ==
    LET g == goroutines[q] IN
    /\ g.pc = "flatten" /\ g.idx > Len(g.results)
    /\ goroutines' = [goroutines EXCEPT
          ![q].pc = "done",
          ![q].fields = fieldMaps[FieldMapOf(q)],
          ![q].frame = SortStrings(DOMAIN fieldMaps[FieldMapOf(q)])]
    /\ UNCHANGED fieldMaps
    /\ UNCHANGED <<queryVars, pluginVars, handlerVars, editorVars>>

NextConc ==
    \/ \E q \in Queries : ConcGetAnalytics(q)
    \/ \E q \in Queries : ConcFlattenResult(q)
    \/ \E q \in Queries : ConcSortedFields(q)

SpecConc == InitConc /\ [][NextConc]_vars

\* what a call with these records gives when it runs alone
AloneOutcomes(recs) == ProjectAll(recs)

(* C17  Queries are isolated under concurrency: for every interleaving of  *)
(* the calls, the table a call returns is a table the call gives when it   *)
(* runs alone on its records, and a call fails only if it can fail alone.  *)
QueriesAreIsolated ==
    \A q \in Queries :
        LET g == goroutines[q] IN
        /\ g.pc = "done" =>
              \E o \in AloneOutcomes(g.results) :
                  /\ ~o.panicked /\ o.fields = g.fields
                  /\ g.frame = SortStrings(DOMAIN o.fields)
        /\ g.pc = "panic" => \E o \in AloneOutcomes(g.results) : o.panicked

\* both calls returned after flattening records of the same attribute in turns
QueriesAreIsolatedWitness ==
    /\ \A q \in Queries : goroutines[q].pc = "done" /\ Len(goroutines[q].results) = 2
    /\ goroutines[1].results # goroutines[2].results
    /\ KeyA \in DOMAIN goroutines[1].fields
    /\ KeyA \in DOMAIN goroutines[2].fields
    /\ goroutines[1].fields # goroutines[2].fields

----------------------------------------------------------------------------
(* The plugin's entry points: NewDatasource, CheckHealth and QueryData.    *)
(* Go strings that are compared as texts are TLA+ strings here.            *)

MaxQueries == 2

RefIDs == {"A", "B", "C"}

\* backend.DataSourceInstanceSettings: is JSONData valid JSON for Settings,
\* does DecryptedSecureJSONData hold "password"
InstanceSettings == [jsonOk : BOOLEAN, hasPassword : BOOLEAN]

\* what NewDatasource returns for settings s: the instance value and the error
NewDatasourceResult(s) ==
    IF ~s.jsonOk
    THEN [settings |-> s, ds |-> "nil", err |-> "error unmarshalling settings from JSON"]
    ELSE IF ~s.hasPassword
    THEN [settings |-> s, ds |-> "DataResponse", err |-> "no password found for Harper connection"]
    ELSE [settings |-> s, ds |-> "Datasource", err |-> "nil"]

\* what d.harperClient.Healthcheck() can return
NoError == [kind |-> "nil", code |-> 0, text |-> ""]
OperationError(code, text) == [kind |-> "operation", code |-> code, text |-> text]
OtherError(text) == [kind |-> "other", code |-> 0, text |-> text]

Healthchecks ==
    { NoError, OperationError(401, "Unauthorized"), OperationError(500, "Internal Server Error"),
      OtherError("connection refused") }

\* CheckHealth handing the healthcheck's error to its caller
CheckHealthReturnsError(hc) ==
    IF hc.kind = "nil"
    THEN [healthcheck |-> hc, status |-> "OK", message |-> "Data source is working", err |-> "nil"]
    ELSE [healthcheck |-> hc, status |-> "ERROR", message |-> "", err |-> hc.text]

\* the *backend.CheckHealthResult and the error CheckHealth returns
CheckHealthResult(hc) ==
    IF hc.kind = "nil"
    THEN [healthcheck |-> hc, status |-> "OK", message |-> "Data source is working", err |-> "nil"]
    ELSE IF hc.kind = "operation"
    THEN [healthcheck |-> hc, status |-> "ERROR",
          message |-> "Health check returned unexpected status code: '" \o ToString(hc.code)
                        \o "' with message: '" \o hc.text \o "'",
          err |-> "nil"]
    ELSE [healthcheck |-> hc, status |-> "ERROR",
          message |-> "Health check returned unexpected error: " \o hc.text,
          err |-> "nil"]

\* backend.DataQuery with what the Harper client answers to it
DataQuery(refID, jsonOk, op, clientErr, recs) ==
    [RefID |-> refID, jsonOk |-> jsonOk, Operation |-> op, clientErr |-> clientErr, results |-> recs]

QueryInputs ==
    { DataQuery(id, FALSE, "get_analytics", FALSE, <<>>) : id \in RefIDs }
    \cup { DataQuery(id, TRUE, "sys_info", FALSE, <<>>) : id \in RefIDs }
    \cup { DataQuery(id, TRUE, "get_analytics", TRUE, <<>>) : id \in RefIDs }
    \cup { DataQuery(id, TRUE, "get_analytics", FALSE, <<>>) : id \in RefIDs }
    \cup { DataQuery(id, TRUE, "get_analytics", FALSE,
                     <<[k \in {KeyA} |-> Scalar("float64", 1)]>>) : id \in RefIDs }
    \cup { DataQuery(id, TRUE, "get_analytics", FALSE,
                     <<[k \in {KeyA} |-> Scalar("float64", 1)],
                       [k \in {KeyA} |-> Scalar("string", 1)]>>) : id \in RefIDs }
    \cup { DataQuery(id, TRUE, "search_by_conditions", FALSE,
                     <<[k \in {KeyA, KeyB} |-> Scalar("float64", 1)]>>) : id \in RefIDs }

\* req.Queries: queries of distinct RefIDs
QueryLists ==
    { qs \in UNION {[1..n -> QueryInputs] : n \in 0..MaxQueries} :
        \A i, j \in DOMAIN qs : i # j => qs[i].RefID # qs[j].RefID }

\* backend.DataResponse as query returns it, and backend.ErrDataResponse
DataResponse(fs) == [Frames |-> fs, Error |-> "nil", Status |-> "unset"]

ErrDataResponse(status, message) == [Frames |-> <<>>, Error |-> message, Status |-> status]

QueryError(message) == [panicked |-> FALSE, res |-> DataResponse(<<>>), err |-> message]

\* the orders in which query puts the fields into the frame
FieldOrders(op, fields) ==
    IF op = "get_analytics" THEN {SortStrings(DOMAIN fields)} ELSE Orders(DOMAIN fields)

\* d.query(ctx, req.PluginContext, q): every outcome of the call
Query(q) ==
    IF ~q.jsonOk THEN {QueryError("could not unmarshal Grafana query JSON")}
    ELSE IF q.Operation \notin {"get_analytics", "search_by_conditions"}
    THEN {QueryError(UnsupportedError(q.Operation))}
    ELSE IF q.clientErr
    THEN {QueryError(ClientErrorText(q.Operation))}
    ELSE UNION { IF o.panicked
                 THEN {[panicked |-> TRUE, res |-> DataResponse(<<>>), err |-> "nil"]}
                 ELSE {[panicked |-> FALSE,
                        res |-> DataResponse(AppendFrame(<<>>, q.RefID, names)),
                        err |-> "nil"] : names \in FieldOrders(q.Operation, o.fields)}
                 : o \in ProjectAll(q.results) }

InitPlugin ==
    /\ QueryIdle
    /\ ConcIdle
    /\ PluginIdle
    /\ HandlerIdle
    /\ EditorIdle

\* the instance manager creates the instance from the settings
NewDatasource ==
    /\ instance = NoInstance
    /\ \E s \in InstanceSettings : instance' = NewDatasourceResult(s)
    /\ UNCHANGED <<health, queryData>>
    /\ UNCHANGED <<queryVars, concVars, handlerVars, editorVars>>

CheckHealth ==
    /\ instance.ds = "Datasource"
    /\ \E hc \in Healthchecks : health' = CheckHealthResult(hc)
    /\ UNCHANGED <<instance, queryData>>
    /\ UNCHANGED <<queryVars, concVars, handlerVars, editorVars>>

\* QueryData is called: response := backend.NewQueryDataResponse()
QueryData ==
    /\ instance.ds = "Datasource"
    /\ queryData.pc = "idle"
    /\ \E qs \in QueryLists :
          queryData' = [pc |-> "loop", queries |-> qs, i |-> 1,
                        responses |-> EmptyMap, err |-> "none"]
    /\ UNCHANGED <<instance, health>>
    /\ UNCHANGED <<queryVars, concVars, handlerVars, editorVars>>

\* one iteration of "for _, q := range req.Queries"; a panic of d.query
\* leaves QueryData, which has no recover
QueryDataLoop ==
    /\ queryData.pc = "loop" /\ queryData.i <= Len(queryData.queries)
    /\ LET q == queryData.queries[queryData.i] IN
       \E out \in Query(q) :
          IF out.panicked
          THEN queryData' = [queryData EXCEPT !.pc = "panic"]
          ELSE queryData' = [queryData EXCEPT
                  !.i = @ + 1,
                  !.responses = Put(@, q.RefID,
                      IF out.err # "nil" THEN ErrDataResponse("BadRequest", out.err)
                      ELSE out.res)]
    /\ UNCHANGED <<instance, health>>
    /\ UNCHANGED <<queryVars, concVars, handlerVars, editorVars>>

\* return response, nil
QueryDataReturn ==
    /\ queryData.pc = "loop" /\ queryData.i > Len(queryData.queries)
    /\ queryData' = [queryData EXCEPT !.pc = "done", !.err = "nil"]
    /\ UNCHANGED <<instance, health>>
    /\ UNCHANGED <<queryVars, concVars, handlerVars, editorVars>>

NextPlugin ==
    \/ NewDatasource
    \/ CheckHealth
    \/ QueryData
    \/ QueryDataLoop
    \/ QueryDataReturn

SpecPlugin == InitPlugin /\ [][NextPlugin]_vars

----------------------------------------------------------------------------
\* the queries for which d.query returns an error
QueryFails(q) ==
    ~q.jsonOk \/ q.Operation \notin {"get_analytics", "search_by_conditions"} \/ q.clientErr

(* C18  Per-query error isolation in QueryData: for queries of distinct    *)
(* RefIDs QueryData always returns, with a nil error and a response map    *)
(* of exactly one entry per RefID; the entry of a failing query has status *)
(* BadRequest and the error text, every other query has its own frame.     *)
QueryDataIsolatesErrors ==
    /\ queryData.pc # "panic"
    /\ queryData.pc = "done" =>
          /\ queryData.err = "nil"
          /\ DOMAIN queryData.responses =
                {queryData.queries[i].RefID : i \in DOMAIN queryData.queries}
          /\ \A i \in DOMAIN queryData.queries :
                LET q == queryData.queries[i]
                    r == queryData.responses[q.RefID]
                IN  IF QueryFails(q)
                    THEN r.Status = "BadRequest" /\ r.Error \in {o.err : o \in Query(q)}
                    ELSE /\ r.Error = "nil" /\ Len(r.Frames) = 1
                         /\ r.Frames[1].RefID = q.RefID

(* C19  A datasource configured without a password cannot be created:      *)
(* when the secure settings hold no "password", NewDatasource returns no   *)
(* Datasource and the error 'no password found for HarperDB connection'.   *)
NoPasswordIsRefused ==
    (instance # NoInstance /\ instance.settings.jsonOk /\ ~instance.settings.hasPassword) =>
        /\ instance.ds # "Datasource"
        /\ instance.err = "no password found for HarperDB connection"

(* C20  CheckHealth reports through its result, never through a Go error:  *)
(* the error it returns is nil; the status is OK, with the message "Data   *)
(* source is working", exactly when the healthcheck succeeded, and ERROR   *)
(* with a message of its own when the healthcheck failed.                  *)
CheckHealthReportsInResult ==
    health # NoHealth =>
        /\ health.err = "nil"
        /\ health.status = "OK" <=> health.healthcheck.kind = "nil"
        /\ health.status = "OK" => health.message = "Data source is working"
        /\ health.status # "OK" =>
              /\ health.status = "ERROR"
              /\ health.message \notin {"", "Data source is working"}

\* a failed healthcheck of each kind has been reported
CheckHealthWitness ==
    /\ health # NoHealth
    /\ health.healthcheck.kind \in {"operation", "other"}
    /\ health.status = "ERROR"

----------------------------------------------------------------------------
(* C21  A query whose operation is neither get_analytics nor               *)
(* search_by_conditions returns the error "unsupported Harper operation:   *)
(* <op>" with no frame, without a call to the Harper client; a query of a  *)
(* supported operation that succeeds returns exactly one frame, whose      *)
(* RefID is the query's.                                                   *)
UnsupportedOperationIsRefused ==
    /\ (pc = "done" /\ operation \notin {"get_analytics", "search_by_conditions"}) =>
          /\ response = "error"
          /\ err = "unsupported Harper operation: " \o operation
          /\ frames = <<>>
          /\ clientCalls = 0
    /\ Returned =>
          /\ operation \in {"get_analytics", "search_by_conditions"}
          /\ err = "nil"
          /\ Len(frames) = 1 /\ frames[1].RefID = QueryRefID

\* a query of an operation the switch does not know has returned
UnsupportedOperationWitness ==
    pc = "done" /\ operation = "sys_info" /\ response = "error"

----------------------------------------------------------------------------
(* Records whose attribute names contain dots.  JSON allows any string as  *)
(* a name, so a record can hold the attribute "a.0.b" beside an attribute  *)
(* "a" that is a sequence of maps; flattenMap names the leaf b of the      *)
(* first element of a "a.0.b" as well.                                     *)

MaxDottedRecords == 2

KeyA0B == KeyA \o Dot \o Itoa(0) \o Dot \o KeyB

DottedRecords ==
    { r \in UNION {[D -> ValuesA \cup ValuesB] : D \in SUBSET {KeyA, KeyA0B}} :
        /\ KeyA \in DOMAIN r =>
              r[KeyA] \in {SliceValue(<<MapValue(InnerRecord)>>), Scalar("float64", 1)}
        /\ KeyA0B \in DOMAIN r =>
              r[KeyA0B] \in {Scalar("float64", 2), Scalar("string", 1), NilValue} }

DottedResultLists == UNION {[1..n -> DottedRecords] : n \in 0..MaxDottedRecords}

\* d.harperClient.GetAnalytics returns records with dotted names
GetAnalyticsDotted ==
    /\ pc = "start" /\ operation = "get_analytics"
    /\ \E rs \in DottedResultLists : results' = rs
    /\ pc' = "flatten"
    /\ UNCHANGED <<operation, idx, mappedFields, warnings, frame, response, frames>>
    /\ clientCalls' = clientCalls + 1 /\ UNCHANGED err
    /\ UNCHANGED <<concVars, pluginVars, handlerVars, editorVars>>

NextDotted ==
    \/ GetAnalyticsDotted
    \/ ClientError
    \/ FlattenResult
    \/ SortedFields

SpecDotted == InitSeries /\ [][NextDotted]_vars

(* C25  Each record contributes at most one cell to each column: after k   *)
(* records have been flattened, no column holds more than k cells, also    *)
(* for records with dotted attribute names or sequences of maps.           *)
AtMostOneCellPerRecord ==
    pc \in {"flatten", "done"} =>
        \A c \in DOMAIN mappedFields : Len(mappedFields[c].vals) <= idx - 1

----------------------------------------------------------------------------
(* pkg/plugin/resource_handler.go: the metricsHandler behind /metrics.     *)
(* One handler serves every request of the datasource, each request in a   *)
(* goroutine of its own, and no lock guards the handler's fields.  A Go    *)
(* slice is a view [arr, len] of a backing array; the slices ListMetrics   *)
(* returns for the builtin metrics live in heap, because the cache and the *)
(* requests share them.  A slice no one shares carries its elements in     *)
(* priv.  Reads and writes of the cache are taken as atomic.               *)

\* requests that arrive in all
MaxRequests == 3

\* the goroutines serving requests; requests[r] is the request goroutine r
\* serves now, and a goroutine that has answered can take the next request
Requests == {1, 2}

\* r.URL.Query()["types"]
MetricTypes == {<<>>, <<"builtin">>, <<"custom">>}

\* what ListMetrics can answer for the builtin and for the custom metrics
BuiltinLists == {<<>>, <<"cpu">>}
CustomLists == {<<"c1">>, <<"c2">>}

\* cells the backing array of a returned slice has beyond its length
SpareCaps == {0, 1}

EmptySlice == [arr |-> 0, len |-> 0, priv |-> <<>>]

PrivateSlice(elems) == [arr |-> 0, len |-> Len(elems), priv |-> elems]

\* the elements a slice shows
Elems(h, sl) == IF sl.arr = 0 THEN sl.priv ELSE SubSeq(h[sl.arr], 1, sl.len)

Contains(types, t) == \E i \in DOMAIN types : types[i] = t

\* append copying into a fresh array, whatever the capacity
AppendSliceCopies(h, sl, xs) ==
    [heap |-> h, slice |-> IF xs = <<>> THEN sl ELSE PrivateSlice(Elems(h, sl) \o xs)]

\* append(sl, xs...): in place when the backing array has room, else into a
\* fresh array
AppendSlice(h, sl, xs) ==
    IF xs = <<>> THEN [heap |-> h, slice |-> sl]
    ELSE IF sl.arr # 0 /\ sl.len + Len(xs) <= Len(h[sl.arr])
    THEN [heap |-> [h EXCEPT ![sl.arr] =
                      [i \in DOMAIN @ |->
                          IF i > sl.len /\ i <= sl.len + Len(xs) THEN xs[i - sl.len] ELSE @[i]]],
          slice |-> [sl EXCEPT !.len = @ + Len(xs)]]
    ELSE [heap |-> h, slice |-> PrivateSlice(Elems(h, sl) \o xs)]

NewRequest ==
    [pc |-> "idle", kind |-> "none", types |-> <<>>, began |-> {},
     calledBuiltin |-> FALSE, calledCustom |-> FALSE,
     metrics |-> EmptySlice, builtin |-> <<>>, custom |-> <<>>, status |-> 0, body |-> <<>>]

\* newMetricsHandler, and no request arrived yet
InitMetrics ==
    /\ mh = [builtinMetricsCache |-> EmptySlice, logger |-> 0]
    /\ heap = <<>>
    /\ requests = [r \in Requests |-> NewRequest]
    /\ upstream = [arrived |-> 0, builtinCalls |-> 0, customCalls |-> 0, fetched |-> {}]
    /\ QueryIdle
    /\ ConcIdle
    /\ PluginIdle
    /\ EditorIdle

Respond(r, status, body) ==
    requests' = [requests EXCEPT ![r].pc = "done", ![r].status = status, ![r].body = body]

\* ServeHTTP up to the call of listMetrics; the requests that are not a GET
\* of /metrics are answered at once
ServeHTTP(r) ==
    /\ requests[r].pc \in {"idle", "done"}
    /\ upstream.arrived < MaxRequests
    /\ upstream' = [upstream EXCEPT !.arrived = @ + 1]
    /\ mh' = [mh EXCEPT !.logger = r]
    /\ \E kind \in {"list", "describe", "describeError", "notGet"} :
          LET fresh == [requests EXCEPT ![r] = [NewRequest EXCEPT !.kind = kind]] IN
          CASE kind = "notGet" ->
                 requests' = [fresh EXCEPT ![r].pc = "done", ![r].status = 404]
            [] kind = "describe" ->
                 requests' = [fresh EXCEPT ![r].pc = "done", ![r].status = 200,
                                           ![r].body = <<"attributes">>]
            [] kind = "describeError" ->
                 requests' = [fresh EXCEPT ![r].pc = "done", ![r].status = 500]
            [] OTHER ->
                 \E types \in MetricTypes :
                    requests' = [fresh EXCEPT ![r].pc = "listMetrics", ![r].types = types]
    /\ UNCHANGED heap
    /\ UNCHANGED <<queryVars, concVars, pluginVars, editorVars>>

\* listMetrics, first branch: listBuiltinMetrics up to the cache check
ListBuiltinMetrics(r) ==
    LET q == requests[r] IN
    /\ q.pc = "listMetrics"
    /\ IF q.types = <<>> \/ Contains(q.types, "builtin")
       THEN IF mh.builtinMetricsCache.len > 0
            THEN requests' = [requests EXCEPT
                    ![r].pc = "custom", ![r].began = upstream.fetched,
                    ![r].metrics = mh.builtinMetricsCache,
                    ![r].builtin = Elems(heap, mh.builtinMetricsCache)]
            ELSE requests' = [requests EXCEPT
                    ![r].pc = "fetchBuiltin", ![r].began = upstream.fetched]
       ELSE requests' = [requests EXCEPT ![r].pc = "custom", ![r].metrics = EmptySlice]
    /\ UNCHANGED <<mh, heap, upstream>>
    /\ UNCHANGED <<queryVars, concVars, pluginVars, editorVars>>

\* listBuiltinMetrics: the call of ListMetrics for the builtin metrics
FetchBuiltin(r) ==
    /\ requests[r].pc = "fetchBuiltin"
    /\ \/ /\ requests' = [requests EXCEPT
                   ![r].pc = "done", ![r].status = 500, ![r].calledBuiltin = TRUE]
          /\ upstream' = [upstream EXCEPT !.builtinCalls = @ + 1]
          /\ UNCHANGED heap
       \/ \E list \in BuiltinLists, spare \in SpareCaps :
             /\ heap' = IF list = <<>> THEN heap
                        ELSE Append(heap, list \o [i \in 1..spare |-> ""])
             /\ requests' = [requests EXCEPT
                   ![r].pc = "storeCache", ![r].calledBuiltin = TRUE,
                   ![r].metrics = IF list = <<>> THEN EmptySlice
                                  ELSE [arr |-> Len(heap) + 1, len |-> Len(list), priv |-> <<>>]]
             /\ upstream' = [upstream EXCEPT
                   !.builtinCalls = @ + 1,
                   !.fetched = IF list = <<>> THEN @ ELSE @ \cup {list}]
    /\ UNCHANGED mh
    /\ UNCHANGED <<queryVars, concVars, pluginVars, editorVars>>

\* mh.builtinMetricsCache = metrics; return metrics, nil
StoreCache(r) ==
    /\ requests[r].pc = "storeCache"
    /\ mh' = [mh EXCEPT !.builtinMetricsCache = requests[r].metrics]
    /\ requests' = [requests EXCEPT
          ![r].pc = "custom", ![r].builtin = Elems(heap, requests[r].metrics)]
    /\ UNCHANGED <<heap, upstream>>
    /\ UNCHANGED <<queryVars, concVars, pluginVars, editorVars>>

\* listMetrics, second branch: listCustomMetrics
ListCustomMetrics(r) ==
    LET q == requests[r] IN
    /\ q.pc = "custom"
    /\ IF q.types = <<>> \/ Contains(q.types, "custom")
       THEN /\ upstream' = [upstream EXCEPT !.customCalls = @ + 1]
            /\ \/ requests' = [requests EXCEPT
                     ![r].pc = "done", ![r].status = 500, ![r].calledCustom = TRUE]
               \/ \E list \in CustomLists :
                     requests' = [requests EXCEPT
                        ![r].pc = "append", ![r].calledCustom = TRUE, ![r].custom = list]
       ELSE /\ requests' = [requests EXCEPT ![r].pc = "marshal"]
            /\ UNCHANGED upstream
    /\ UNCHANGED <<mh, heap>>
    /\ UNCHANGED <<queryVars, concVars, pluginVars, editorVars>>

\* metrics = append(metrics, customMetrics...)
AppendCustom(r) ==
    LET q == requests[r]
        out == AppendSlice(heap, q.metrics, q.custom) IN
    /\ q.pc = "append"
    /\ heap' = out.heap
    /\ requests' = [requests EXCEPT ![r].pc = "marshal", ![r].metrics = out.slice]
    /\ UNCHANGED <<mh, upstream>>
    /\ UNCHANGED <<queryVars, concVars, pluginVars, editorVars>>

\* json.Marshal(metrics) and the writing of the response
Marshal(r) ==
    /\ requests[r].pc = "marshal"
    /\ Respond(r, 200, Elems(heap, requests[r].metrics))
    /\ UNCHANGED <<mh, heap, upstream>>
    /\ UNCHANGED <<queryVars, concVars, pluginVars, editorVars>>

NextMetrics ==
    \/ \E r \in Requests : ServeHTTP(r)
    \/ \E r \in Requests : ListBuiltinMetrics(r)
    \/ \E r \in Requests : FetchBuiltin(r)
    \/ \E r \in Requests : StoreCache(r)
    \/ \E r \in Requests : ListCustomMetrics(r)
    \/ \E r \in Requests : AppendCustom(r)
    \/ \E r \in Requests : Marshal(r)

SpecMetrics == InitMetrics /\ [][NextMetrics]_vars

----------------------------------------------------------------------------
WantsBuiltin(q) == q.kind = "list" /\ (q.types = <<>> \/ Contains(q.types, "builtin"))

WantsCustom(q) == q.kind = "list" /\ (q.types = <<>> \/ Contains(q.types, "custom"))

\* listBuiltinMetrics has returned a list to the request
HasBuiltin(q) == WantsBuiltin(q) /\ q.pc \in {"custom", "append", "marshal"}

(* C22  Builtin-metrics cache: a listBuiltinMetrics call that begins after *)
(* a non-empty builtin listing was fetched upstream makes no upstream call *)
(* and returns a list that was fetched before it began; while nothing      *)
(* non-empty was fetched the cache is empty; a request for custom metrics  *)
(* that got its list has called upstream for it.                           *)
BuiltinCacheHolds ==
    /\ \A r \in Requests :
          LET q == requests[r] IN
          /\ (WantsBuiltin(q) /\ q.began # {}) => ~q.calledBuiltin
          /\ (HasBuiltin(q) /\ q.began # {}) => q.builtin \in q.began
          /\ (WantsCustom(q) /\ q.pc \in {"append", "marshal"}) => q.calledCustom
    /\ upstream.fetched = {} => mh.builtinMetricsCache.len = 0

(* C26  Concurrent metric-listing requests do not interfere: the response  *)
(* of every answered GET /metrics is the builtin list the request got      *)
(* followed by the custom list the same request fetched, and the cached    *)
(* list is always empty or a list that upstream returned.                  *)
MetricsRequestsDoNotInterfere ==
    /\ \A r \in Requests :
          LET q == requests[r] IN
          (q.kind = "list" /\ q.pc = "done" /\ q.status = 200) =>
              q.body = q.builtin \o q.custom
    /\ Elems(heap, mh.builtinMetricsCache) \in {<<>>} \cup upstream.fetched

----------------------------------------------------------------------------
(* src/datasource.ts: the frontend DataSource.  A JavaScript string is a   *)
(* sequence of one-character strings.  A number is kept as its decimal     *)
(* digits: [kind, neg, digits, point], the value 0.d1d2..dk * 10^point     *)
(* with d1 and dk not 0 (no digits for zero).  For the short decimal texts *)
(* of the model the nearest double prints back with exactly these digits,  *)
(* so parseFloat and Number.prototype.toString are exact on them.          *)

UpperCase ==
    <<"A", "B", "C", "D", "E", "F", "G", "H", "I", "J", "K", "L", "M",
      "N", "O", "P", "Q", "R", "S", "T", "U", "V", "W", "X", "Y", "Z">>

LowerCase ==
    <<"a", "b", "c", "d", "e", "f", "g", "h", "i", "j", "k", "l", "m",
      "n", "o", "p", "q", "r", "s", "t", "u", "v", "w", "x", "y", "z">>

DigitChars == <<"0", "1", "2", "3", "4", "5", "6", "7", "8", "9">>

WhiteSpace == {" ", "\t", "\n"}

IsDigit(c) == \E i \in DOMAIN DigitChars : DigitChars[i] = c

DigitOf(c) == (CHOOSE i \in DOMAIN DigitChars : DigitChars[i] = c) - 1

\* String.prototype.toLowerCase
ToLowerCase(str) ==
    [i \in DOMAIN str |->
        IF \E j \in DOMAIN UpperCase : UpperCase[j] = str[i]
        THEN LowerCase[CHOOSE j \in DOMAIN UpperCase : UpperCase[j] = str[i]]
        ELSE str[i]]

RECURSIVE TrimStart(_)
TrimStart(str) ==
    IF str # <<>> /\ Head(str) \in WhiteSpace THEN TrimStart(Tail(str)) ELSE str

RECURSIVE TrimEnd(_)
TrimEnd(str) ==
    IF str # <<>> /\ str[Len(str)] \in WhiteSpace
    THEN TrimEnd(SubSeq(str, 1, Len(str) - 1)) ELSE str

\* String.prototype.trim
Trim(str) == TrimEnd(TrimStart(str))

\* the pieces of str between its commas
RECURSIVE SplitComma(_, _)
SplitComma(str, piece) ==
    IF str = <<>> THEN <<piece>>
    ELSE IF Head(str) = "," THEN <<piece>> \o SplitComma(Tail(str), <<>>)
    ELSE SplitComma(Tail(str), Append(piece, Head(str)))

\* str.split(/\s*,\s*/): a separator takes the white space on both sides of
\* its comma
Split(str) ==
    LET pieces == SplitComma(str, <<>>) IN
    [i \in DOMAIN pieces |->
        LET left == IF i > 1 THEN TrimStart(pieces[i]) ELSE pieces[i]
        IN  IF i < Len(pieces) THEN TrimEnd(left) ELSE left]

NaN == [kind |-> "nan", neg |-> FALSE, digits |-> <<>>, point |-> 0]

Infinity(neg) == [kind |-> "infinity", neg |-> neg, digits |-> <<>>, point |-> 0]

InfinityText == <<"I", "n", "f", "i", "n", "i", "t", "y">>

RECURSIVE StripTrailingZeros(_)
StripTrailingZeros(ds) ==
    IF ds # <<>> /\ ds[Len(ds)] = 0 THEN StripTrailingZeros(SubSeq(ds, 1, Len(ds) - 1)) ELSE ds

\* the number 0.ds * 10^point in its normal form
RECURSIVE Number(_, _, _)
Number(neg, ds, point) ==
    IF ds = <<>> THEN [kind |-> "number", neg |-> neg, digits |-> <<>>, point |-> 0]
    ELSE IF Head(ds) = 0 THEN Number(neg, Tail(ds), point - 1)
    ELSE [kind |-> "number", neg |-> neg, digits |-> StripTrailingZeros(ds), point |-> point]

\* how many digits str has from index i on
RECURSIVE DigitRun(_, _)
DigitRun(str, i) ==
    IF i <= Len(str) /\ IsDigit(str[i]) THEN 1 + DigitRun(str, i + 1) ELSE 0

RECURSIVE DigitsValue(_)
DigitsValue(ds) ==
    IF ds = <<>> THEN 0 ELSE 10 * DigitsValue(SubSeq(ds, 1, Len(ds) - 1)) + ds[Len(ds)]

DigitsOf(str, i, n) == [j \in 1..n |-> DigitOf(str[i + j - 1])]

IsPrefix(pre, str) == Len(pre) <= Len(str) /\ SubSeq(str, 1, Len(pre)) = pre

\* parseFloat: the longest prefix of the text, after leading white space,
\* that is a decimal literal; NaN when there is none
ParseFloat(str) ==
    LET t == TrimStart(str)
        sgn == IF t # <<>> /\ t[1] \in {"+", "-"} THEN 1 ELSE 0
        neg == sgn = 1 /\ t[1] = "-"
        p == sgn + 1
        ni == DigitRun(t, p)
        hasDot == p + ni <= Len(t) /\ t[p + ni] = "."
        nf == IF hasDot THEN DigitRun(t, p + ni + 1) ELSE 0
        q == p + ni + (IF hasDot THEN 1 + nf ELSE 0)
        hasE == q <= Len(t) /\ t[q] \in {"e", "E"}
        es == IF hasE /\ q + 1 <= Len(t) /\ t[q + 1] \in {"+", "-"} THEN 1 ELSE 0
        ne == IF hasE THEN DigitRun(t, q + 1 + es) ELSE 0
        ev == DigitsValue(DigitsOf(t, q + 1 + es, ne))
        exp == IF ne = 0 THEN 0 ELSE IF es = 1 /\ t[q + 1] = "-" THEN 0 - ev ELSE ev
    IN  IF IsPrefix(InfinityText, SubSeq(t, p, Len(t))) THEN Infinity(neg)
        ELSE IF ni = 0 /\ nf = 0 THEN NaN
        ELSE Number(neg, DigitsOf(t, p, ni) \o DigitsOf(t, p + ni + 1, nf), ni + exp)

IsNaN(num) == num.kind = "nan"

DigitsText(ds) == [i \in DOMAIN ds |-> DigitChars[ds[i] + 1]]

Zeros(n) == [i \in 1..n |-> "0"]

RECURSIVE NaturalText(_)
NaturalText(n) ==
    IF n < 10 THEN <<DigitChars[n + 1]>> ELSE NaturalText(n \div 10) \o <<DigitChars[(n % 10) + 1]>>

\* Number.prototype.toString, radix 10
NumberToString(num) ==
    LET k == Len(num.digits)
        n == num.point
        sign == IF num.neg THEN <<"-">> ELSE <<>>
        ds == DigitsText(num.digits)
        e == n - 1
    IN  IF num.kind = "nan" THEN <<"N", "a", "N">>
        ELSE IF num.kind = "infinity" THEN sign \o InfinityText
        ELSE IF k = 0 THEN <<"0">>
        ELSE IF k <= n /\ n <= 21 THEN sign \o ds \o Zeros(n - k)
        ELSE IF 0 < n /\ n <= 21 THEN sign \o SubSeq(ds, 1, n) \o <<".">> \o SubSeq(ds, n + 1, k)
        ELSE IF -6 < n /\ n <= 0 THEN sign \o <<"0", ".">> \o Zeros(0 - n) \o ds
        ELSE sign \o <<ds[1]>> \o (IF k = 1 THEN <<>> ELSE <<".">> \o SubSeq(ds, 2, k))
                  \o <<"e">> \o (IF e < 0 THEN <<"-">> ELSE <<"+">>)
                  \o NaturalText(IF e < 0 THEN 0 - e ELSE e)

----------------------------------------------------------------------------
(* DataSource.coerceValue and the SearchValue it returns *)

TrueText == <<"t", "r", "u", "e">>
FalseText == <<"f", "a", "l", "s", "e">>

\* the JavaScript values a SearchValue holds in val
BooleanVal(b) == [js |-> "boolean", b |-> b]
NumberVal(num) == [js |-> "number", num |-> num]
ArrayVal(nums) == [js |-> "array", nums |-> nums]
StringVal(str) == [js |-> "string", str |-> str]

SearchValue(val, type) == [val |-> val, type |-> type]

RECURSIVE Join(_)
Join(strs) ==
    IF strs = <<>> THEN <<>>
    ELSE IF Len(strs) = 1 THEN strs[1]
    ELSE strs[1] \o <<",">> \o Join(Tail(strs))

\* val.toString()
ValToString(val) ==
    CASE val.js = "boolean" -> IF val.b THEN TrueText ELSE FalseText
      [] val.js = "number" -> NumberToString(val.num)
      [] val.js = "array" -> Join([i \in DOMAIN val.nums |-> NumberToString(val.nums[i])])
      [] OTHER -> val.str

\* nums.every((n, i) => !isNaN(n) && n.toString() === elems[i])
EveryNumber(nums, elems) ==
    \A i \in DOMAIN nums : ~IsNaN(nums[i]) /\ NumberToString(nums[i]) = elems[i]

\* coerceValue trying number_array before number
coerceValueArrayFirst(fieldVal, toType) ==
    LET trimmedFieldVal == Trim(fieldVal)
        canonicalFieldVal == ToLowerCase(trimmedFieldVal)
        numFieldVal == ParseFloat(canonicalFieldVal)
        elems == Split(canonicalFieldVal)
        nums == [i \in DOMAIN elems |-> ParseFloat(elems[i])]
    IN  IF toType \in {"auto", "boolean"} /\ canonicalFieldVal = FalseText
        THEN SearchValue(BooleanVal(FALSE), "boolean")
        ELSE IF toType \in {"auto", "boolean"} /\ canonicalFieldVal = TrueText
        THEN SearchValue(BooleanVal(TRUE), "boolean")
        ELSE IF toType \in {"auto", "number_array"} /\ EveryNumber(nums, elems)
        THEN SearchValue(ArrayVal(nums), "number_array")
        ELSE IF /\ toType \in {"auto", "number"}
                /\ ~IsNaN(numFieldVal)
                /\ NumberToString(numFieldVal) = trimmedFieldVal
        THEN SearchValue(NumberVal(numFieldVal), "number")
        ELSE SearchValue(StringVal(trimmedFieldVal), "string")

coerceValue(fieldVal, toType) ==
    LET trimmedFieldVal == Trim(fieldVal)
        canonicalFieldVal == ToLowerCase(trimmedFieldVal)
        numFieldVal == ParseFloat(canonicalFieldVal)
        elems == Split(canonicalFieldVal)
        nums == [i \in DOMAIN elems |-> ParseFloat(elems[i])]
    IN  IF toType \in {"auto", "boolean"} /\ canonicalFieldVal = FalseText
        THEN SearchValue(BooleanVal(FALSE), "boolean")
        ELSE IF toType \in {"auto", "boolean"} /\ canonicalFieldVal = TrueText
        THEN SearchValue(BooleanVal(TRUE), "boolean")
        ELSE IF /\ toType \in {"auto", "number"}
                /\ ~IsNaN(numFieldVal)
                /\ NumberToString(numFieldVal) = trimmedFieldVal
        THEN SearchValue(NumberVal(numFieldVal), "number")
        ELSE IF toType \in {"auto", "number_array"} /\ EveryNumber(nums, elems)
        THEN SearchValue(ArrayVal(nums), "number_array")
        ELSE SearchValue(StringVal(trimmedFieldVal), "string")

\* the texts a user can type: up to MaxTokens of these pieces in a row
MaxTokens == 3

Tokens ==
    { TrueText, <<"F", "A", "L", "S", "E">>, <<"1">>, <<"0">>, <<"5">>,
      <<"E", "-", "7">>, <<"-">>, <<".">>, <<",">>, <<" ">> }

RECURSIVE Texts(_)
Texts(n) ==
    IF n = 0 THEN {<<>>}
    ELSE LET shorter == Texts(n - 1) IN shorter \cup {t \o k : t \in shorter, k \in Tokens}

FieldVals == Texts(MaxTokens)

ToTypes == {"auto", "boolean", "string", "number", "number_array"}

NoValue == [type |-> "undefined"]

InitCoerce ==
    /\ \E fieldVal \in FieldVals, toType \in ToTypes :
          coerced = [fieldVal |-> fieldVal, toType |-> toType,
                     result |-> NoValue, again |-> NoValue]
    /\ form = [typed |-> <<>>]
    /\ templ = [filtered |-> "none"]
    /\ QueryIdle /\ ConcIdle /\ PluginIdle /\ HandlerIdle

\* coerceValue(fieldVal, toType)
CoerceValue ==
    /\ coerced.result = NoValue
    /\ coerced' = [coerced EXCEPT !.result = coerceValue(coerced.fieldVal, coerced.toType)]
    /\ UNCHANGED <<form, templ, backendVars>>

\* the coerced value is coerced once more from its string form, as the
\* editor does on a type change and applyTemplateVariables on every run
CoerceAgain ==
    /\ coerced.result # NoValue /\ coerced.again = NoValue
    /\ coerced' = [coerced EXCEPT
          !.again = coerceValue(ValToString(coerced.result.val), coerced.toType)]
    /\ UNCHANGED <<form, templ, backendVars>>

NextCoerce ==
    \/ CoerceValue
    \/ CoerceAgain

SpecCoerce == InitCoerce /\ [][NextCoerce]_vars

----------------------------------------------------------------------------
\* what it is for a text to parse as a type
IsBooleanText(str) == ToLowerCase(Trim(str)) \in {TrueText, FalseText}

IsNumberText(str) ==
    LET num == ParseFloat(ToLowerCase(Trim(str)))
    IN  ~IsNaN(num) /\ NumberToString(num) = Trim(str)

IsNumberArrayText(str) ==
    LET elems == Split(ToLowerCase(Trim(str)))
    IN  \A i \in DOMAIN elems :
           ~IsNaN(ParseFloat(elems[i])) /\ NumberToString(ParseFloat(elems[i])) = elems[i]

ParsesAs(str, type) ==
    CASE type = "boolean" -> IsBooleanText(str)
      [] type = "number" -> IsNumberText(str)
      [] type = "number_array" -> IsNumberArrayText(str)
      [] OTHER -> TRUE

RecoercionIsIdempotent ==
    coerced.again # NoValue => coerced.again = coerced.result

----------------------------------------------------------------------------
(* components/QueryEditor.tsx: ConditionForm, one condition of the form *)

\* const searchValueTypes = ['Auto', 'String', 'Number', 'Boolean', 'Number Array']
searchValueTypes == <<"Auto", "String", "Number", "Boolean", "Number Array">>

toComboboxOption(v) == [label |-> v, value |-> v]

searchValueTypesOptions == [i \in DOMAIN searchValueTypes |-> toComboboxOption(searchValueTypes[i])]

Undefined == "undefined"

\* a ?? b
OrElse(a, b) == IF a = Undefined THEN b ELSE a

\* the texts typed into the Value input: up to MaxTyped pieces
MaxTyped == 2

TypedVals == Texts(MaxTyped)

\* newCondition: { searchValueType: 'auto', id }, or a condition of a saved
\* query that has no searchValueType
InitEditor ==
    /\ \E svt \in {"auto", Undefined} :
          form = [searchValueType |-> svt, value |-> NoValue,
                  typed |-> <<>>, chosen |-> Undefined, last |-> "new"]
    /\ coerced = [toType |-> "none"]
    /\ templ = [filtered |-> "none"]
    /\ QueryIdle /\ ConcIdle /\ PluginIdle /\ HandlerIdle

\* Value input onChange
ValueChange ==
    \E text \in TypedVals :
       LET svt == OrElse(form.searchValueType, "auto")
           coercedVal == coerceValue(text, svt)
       IN  /\ form' = [form EXCEPT !.value = coercedVal, !.typed = text, !.last = "value"]
           /\ UNCHANGED <<coerced, templ, backendVars>>

\* Type selector onChange
TypeChange ==
    \E i \in DOMAIN searchValueTypesOptions :
       LET v == searchValueTypesOptions[i]
           text == IF form.value = NoValue THEN <<>> ELSE ValToString(form.value.val)
       IN  /\ form' = [form EXCEPT !.searchValueType = v.value,
                                   !.value = coerceValue(text, OrElse(v.value, "string")),
                                   !.chosen = v.label,
                                   !.last = "type"]
           /\ UNCHANGED <<coerced, templ, backendVars>>

NextEditor ==
    \/ ValueChange
    \/ TypeChange

SpecEditor == InitEditor /\ [][NextEditor]_vars

\* the value type an option of the Type selector stands for
TypeOfOption(label, text) ==
    CASE label = "String" -> "string"
      [] label = "Number" -> "number"
      [] label = "Boolean" -> "boolean"
      [] label = "Number Array" -> "number_array"
      [] OTHER -> IF IsBooleanText(text) THEN "boolean"
                  ELSE IF IsNumberText(text) THEN "number"
                  ELSE IF IsNumberArrayText(text) THEN "number_array"
                  ELSE "string"

(* C27  Every value type the condition form offers is one coerceValue      *)
(* honours: after an option of the Type selector was chosen and a value    *)
(* that parses as that type was entered, the stored search value has the   *)
(* chosen type.                                                            *)
SelectorTypesAreHonoured ==
    (form.last = "value" /\ form.chosen # Undefined) =>
        LET type == TypeOfOption(form.chosen, form.typed)
        IN  ParsesAs(form.typed, type) => form.value.type = type

----------------------------------------------------------------------------
(* src/datasource.ts: applyTemplateVariables and filterQuery.  Objects live *)
(* in templ.objects and are referred to by their index; 0 is undefined.     *)
(* A queryAttrs object is a function from the keys it has to their values.  *)

\* the truthiness of a string | undefined
TruthyString(str) == str # Undefined /\ str # ""

\* the truthiness of value?.val
TruthyVal(value) ==
    /\ value # NoValue
    /\ CASE value.val.js = "boolean" -> value.val.b
         [] value.val.js = "number" -> ~IsNaN(value.val.num) /\ value.val.num.digits # <<>>
         [] value.val.js = "string" -> value.val.str # <<>>
         [] OTHER -> TRUE

\* templateSrv.replace(target, scopedVars): every $ of the text is replaced
\* with the value of the variable
RECURSIVE Replace(_, _)
Replace(target, scopedVars) ==
    IF target = <<>> THEN <<>>
    ELSE (IF Head(target) = "$" THEN scopedVars ELSE <<Head(target)>>)
            \o Replace(Tail(target), scopedVars)

\* Number.parseInt(str, 10)
ParseInt(str) ==
    LET t == TrimStart(str)
        sgn == IF t # <<>> /\ t[1] \in {"+", "-"} THEN 1 ELSE 0
        n == DigitRun(t, sgn + 1)
    IN  IF n = 0 THEN NaN
        ELSE Number(sgn = 1 /\ t[1] = "-", DigitsOf(t, sgn + 1, n), n)

\* { ...obj, key: val }
Spread(obj, key, val) == [k \in DOMAIN obj \cup {key} |-> IF k = key THEN val ELSE obj[k]]

\* the condition sent to the backend
ForwardedCondition(c, scopedVars) ==
    LET searchFieldVal == Replace(ValToString(c.value.val), scopedVars)
        searchValType == OrElse(c.searchValueType, "auto")
        searchVal == coerceValue(searchFieldVal, searchValType)
    IN  [attribute |-> c.attribute, comparator |-> c.comparator, value |-> searchVal]

\* conditions?.filter(...).map(...)
RECURSIVE FilterMap(_, _)
FilterMap(conditions, scopedVars) ==
    IF conditions = <<>> THEN <<>>
    ELSE LET c == Head(conditions)
         IN  (IF TruthyString(c.attribute) /\ TruthyString(c.comparator) /\ TruthyVal(c.value)
              THEN <<ForwardedCondition(c, scopedVars)>> ELSE <<>>)
                 \o FilterMap(Tail(conditions), scopedVars)

\* the text of queryAttrs?.from?.toString() after templateSrv.replace
ReplacedAttr(attrs, key, scopedVars) ==
    IF key \in DOMAIN attrs THEN Replace(attrs[key], scopedVars) ELSE <<>>

\* query.queryAttrs = { ...query.queryAttrs, conditions }
WithConditions(objects, query, conditions) ==
    LET made == Append(objects, Spread(objects[objects[query].queryAttrs], "conditions", conditions))
    IN  [made EXCEPT ![query].queryAttrs = Len(made)]

\* query.queryAttrs = { ...query.queryAttrs, from, to }
WithRange(objects, query, from, to) ==
    LET made == Append(objects,
                   Spread(Spread(objects[objects[query].queryAttrs], "from", from), "to", to))
    IN  [made EXCEPT ![query].queryAttrs = Len(made)]

\* if ('conditions' in queryTemplate.queryAttrs) ...
ApplyConditions(objects, query, attrs, scopedVars) ==
    IF "conditions" \in DOMAIN attrs
    THEN WithConditions(objects, query, FilterMap(attrs["conditions"], scopedVars))
    ELSE objects

\* if ('from' in queryTemplate.queryAttrs || 'to' in queryTemplate.queryAttrs) ...
ApplyRange(objects, query, attrs, scopedVars) ==
    IF "from" \in DOMAIN attrs \/ "to" \in DOMAIN attrs
    THEN WithRange(objects, query, ParseInt(ReplacedAttr(attrs, "from", scopedVars)),
                   ParseInt(ReplacedAttr(attrs, "to", scopedVars)))
    ELSE objects

\* the objects after applyTemplateVariables(queryTemplate, scopedVars); the
\* query it returns is the object made first
applyTemplateVariables(objects, queryTemplate, scopedVars) ==
    IF objects[queryTemplate].queryAttrs = 0
    THEN Append(objects, objects[queryTemplate])
    ELSE ApplyRange(ApplyConditions(Append(objects, objects[queryTemplate]), Len(objects) + 1,
                                    objects[objects[queryTemplate].queryAttrs], scopedVars),
                    Len(objects) + 1, objects[objects[queryTemplate].queryAttrs], scopedVars)

isSearchByConditionsQuery(objects, query) ==
    /\ objects[query].operation = "search_by_conditions"
    /\ objects[query].queryAttrs # 0
    /\ "database" \in DOMAIN objects[objects[query].queryAttrs]
    /\ "table" \in DOMAIN objects[objects[query].queryAttrs]
    /\ "conditions" \in DOMAIN objects[objects[query].queryAttrs]

isReadySearchByConditionsQuery(objects, query) ==
    LET queryAttrs == objects[objects[query].queryAttrs]
    IN  IF "conditions" \in DOMAIN queryAttrs
        THEN /\ Len(queryAttrs["conditions"]) > 0
             /\ TruthyString(queryAttrs["conditions"][1].attribute)
             /\ TruthyString(queryAttrs["conditions"][1].comparator)
             /\ TruthyVal(queryAttrs["conditions"][1].value)
        ELSE FALSE

isGetAnalyticsQuery(objects, query) ==
    /\ objects[query].operation = "get_analytics"
    /\ objects[query].queryAttrs # 0
    /\ "metric" \in DOMAIN objects[objects[query].queryAttrs]

isReadyGetAnalyticsQuery(objects, query) ==
    LET queryAttrs == objects[objects[query].queryAttrs]
    IN  IF "metric" \in DOMAIN queryAttrs THEN queryAttrs["metric"] # "" ELSE FALSE

filterQuery(objects, query) ==
    \/ isSearchByConditionsQuery(objects, query) /\ isReadySearchByConditionsQuery(objects, query)
    \/ isGetAnalyticsQuery(objects, query) /\ isReadyGetAnalyticsQuery(objects, query)

----------------------------------------------------------------------------
\* the conditions of a query template
Condition(attribute, comparator, value, searchValueType) ==
    [attribute |-> attribute, comparator |-> comparator, value |-> value,
     searchValueType |-> searchValueType]

\* the values a condition of the editor can hold: 5, 0, true, false, x, $
\* and 0,5 as typed under 'auto'
ConditionValues ==
    { SearchValue(NumberVal(Number(FALSE, <<5>>, 1)), "number"),
      SearchValue(NumberVal(Number(FALSE, <<>>, 0)), "number"),
      SearchValue(BooleanVal(TRUE), "boolean"),
      SearchValue(BooleanVal(FALSE), "boolean"),
      SearchValue(StringVal(<<"x">>), "string"),
      SearchValue(StringVal(<<"$">>), "string"),
      SearchValue(ArrayVal(<<Number(FALSE, <<>>, 0), Number(FALSE, <<5>>, 1)>>), "number_array") }

Conditions ==
    { Condition("a", "equals", value, "auto") : value \in ConditionValues }
       \cup { Condition(attribute, "equals", SearchValue(StringVal(<<"x">>), "string"), "auto") :
                 attribute \in {Undefined, ""} }
       \cup { Condition("a", comparator, SearchValue(StringVal(<<"x">>), "string"), "auto") :
                 comparator \in {Undefined, ""} }
       \cup { Condition("a", "equals", NoValue, "auto"),
              Condition("a", "equals", SearchValue(StringVal(<<>>), "string"), Undefined) }

MaxConditions == 2

RECURSIVE ConditionLists(_)
ConditionLists(n) ==
    IF n = 0 THEN {<<>>}
    ELSE LET shorter == ConditionLists(n - 1)
         IN  shorter \cup {Append(l, c) : l \in shorter, c \in Conditions}

Metrics == {"", "cpu"}

\* '${__from}' and '${__to}' of AnalyticsQueryEditor
FromTemplate == <<"$">>

Key(key, val) == [k \in {key} |-> val]

QueryAttrs ==
    { Key("metric", metric) : metric \in Metrics }
       \cup { Key("metric", "cpu") @@ Key("from", FromTemplate) }
       \cup { Key("metric", metric) @@ Key("from", FromTemplate) @@ Key("to", FromTemplate)
                 @@ Key("conditions", conditions) :
                 metric \in Metrics, conditions \in ConditionLists(MaxConditions) }
       \cup { Key("database", "data") @@ Key("table", "dog") @@ Key("conditions", conditions) :
                 conditions \in ConditionLists(MaxConditions) }
       \cup { Key("table", "dog") @@ Key("conditions", conditions) :
                 conditions \in ConditionLists(MaxConditions) }

QueryOperations == {"get_analytics", "search_by_conditions", Undefined}

ScopedVars == {<<"7">>, <<"x">>}

HarperQuery(op, queryAttrs) == [operation |-> op, queryAttrs |-> queryAttrs]

InitTemplate ==
    /\ \E op \in QueryOperations, scopedVars \in ScopedVars :
          \/ templ = [objects |-> <<HarperQuery(op, 0)>>, queryTemplate |-> 1,
                      scopedVars |-> scopedVars, original |-> <<HarperQuery(op, 0)>>,
                      query |-> 0, asked |-> FALSE, filtered |-> "none"]
          \/ \E queryAttrs \in QueryAttrs :
                templ = [objects |-> <<HarperQuery(op, 2), queryAttrs>>,
                         queryTemplate |-> 1, scopedVars |-> scopedVars,
                         original |-> <<HarperQuery(op, 2), queryAttrs>>,
                         query |-> 0, asked |-> FALSE, filtered |-> "none"]
    /\ coerced = [toType |-> "none"]
    /\ form = [typed |-> <<>>]
    /\ QueryIdle /\ ConcIdle /\ PluginIdle /\ HandlerIdle

\* DataSourceWithBackend asks filterQuery whether to run the query
FilterQuery ==
    /\ ~templ.asked
    /\ templ' = [templ EXCEPT !.asked = TRUE,
                              !.filtered = filterQuery(templ.objects, templ.queryTemplate)]
    /\ UNCHANGED <<coerced, form, backendVars>>

ApplyTemplateVariables ==
    /\ templ.query = 0
    /\ templ' = [templ EXCEPT
          !.objects = applyTemplateVariables(templ.objects, templ.queryTemplate, templ.scopedVars),
          !.query = Len(templ.objects) + 1]
    /\ UNCHANGED <<coerced, form, backendVars>>

NextTemplate ==
    \/ FilterQuery
    \/ ApplyTemplateVariables

SpecTemplate == InitTemplate /\ [][NextTemplate]_vars

----------------------------------------------------------------------------
\* a condition's value is set: there is a search value and it is not the
\* empty text
ValueIsSet(value) == value # NoValue /\ value.val # StringVal(<<>>)

\* attribute, comparator and value of the condition are all set
CompleteCondition(c) ==
    /\ c.attribute # Undefined /\ c.attribute # ""
    /\ c.comparator # Undefined /\ c.comparator # ""
    /\ ValueIsSet(c.value)

\* the queryAttrs the template had when it was handed over
OriginalAttrs == IF templ.original[1].queryAttrs = 0 THEN <<>> ELSE templ.original[2]

\* the query is minimally valid
MinimallyValid ==
    \/ /\ templ.original[1].operation = "get_analytics"
       /\ "metric" \in DOMAIN OriginalAttrs
       /\ OriginalAttrs["metric"] # ""
    \/ /\ templ.original[1].operation = "search_by_conditions"
       /\ {"database", "table", "conditions"} \subseteq DOMAIN OriginalAttrs
       /\ OriginalAttrs["conditions"] # <<>>
       /\ CompleteCondition(OriginalAttrs["conditions"][1])

(* C23  filterQuery lets a query execute only when it is minimally valid:  *)
(* it returns true exactly for a get_analytics query with a non-empty      *)
(* metric, or a search_by_conditions query with database, table and        *)
(* conditions whose first condition has a non-empty attribute, a non-empty *)
(* comparator and a value.                                                 *)
FilterQueryIsMinimalValidity ==
    templ.asked => (templ.filtered <=> MinimallyValid)

\* the complete conditions of the template, in their order, as sent
RECURSIVE CompleteConditionsSent(_)
CompleteConditionsSent(conditions) ==
    IF conditions = <<>> THEN <<>>
    ELSE (IF CompleteCondition(Head(conditions))
          THEN <<ForwardedCondition(Head(conditions), templ.scopedVars)>> ELSE <<>>)
             \o CompleteConditionsSent(Tail(conditions))

(* C29  applyTemplateVariables forwards every complete condition and only  *)
(* those: the conditions of the returned query are the template's          *)
(* conditions whose attribute, comparator and value are all set (the       *)
(* number 0 and the boolean false are values), each as attribute,          *)
(* comparator, coerced value, in the template's order; and the template    *)
(* query object is not modified.                                           *)
CompleteConditionsAreForwarded ==
    templ.query # 0 =>
        /\ SubSeq(templ.objects, 1, Len(templ.original)) = templ.original
        /\ "conditions" \in DOMAIN OriginalAttrs =>
              templ.objects[templ.objects[templ.query].queryAttrs]["conditions"]
                 = CompleteConditionsSent(OriginalAttrs["conditions"])

====
